---- MODULE Spec2Model ----
(***************************************************************************)
(* Model of super_gradients/training/utils/predict/prediction_results.py:  *)
(* the prediction wrappers (single image, image collection, video) and     *)
(* their draw / show / save operations, with the drawing and media         *)
(* collaborators recorded as logs of the calls they receive.               *)
(*                                                                         *)
(* Python values are records [type, items]; sequences are 1-based here     *)
(* where Python is 0-based (class ids and file indices keep Python's       *)
(* 0-based numbers).                                                       *)
(***************************************************************************)
EXTENDS Integers, Sequences, FiniteSets, TLC

VARIABLES
    cls,        \* the class of the object the caller holds
    lst,        \* _images_prediction_lst / the wrappers behind _images_prediction_gen
    dirs,       \* directories that exist because os.makedirs created them
    files,      \* paths save_image has written
    op,         \* the call that has just run ("idle": the caller holds no result)
    args,       \* the arguments of that call
    raised,     \* the exception that call raised ([kind |-> "none"] when it returned)
    result,     \* what draw returned
    renderer,   \* the box / label / overlay renderer invocations of that call
    shown,      \* the images that call handed to show_image
    saved,      \* the (path, image) pairs that call handed to save_image
    delegated,  \* the single-item calls a collection call issued
    gen_pos,    \* how many elements have been pulled from _images_prediction_gen
    gens        \* the generators VideoDetectionPrediction.draw has returned

vars == <<cls, lst, dirs, files, op, args, raised, result, renderer, shown, saved,
          delegated, gen_pos, gens>>

----------------------------------------------------------------------------
(* Bounds of the model. *)

MaxBoxes == 2       \* predicted boxes per image in the single-image specification
MaxImages == 3      \* images in a collection
MaxFrames == 3      \* elements of a video source
MaxGens == 2        \* generators draw() hands out in the video specification

----------------------------------------------------------------------------
(* Python values. *)

PyNone == [type |-> "None", items |-> <<>>]
PyList(s) == [type |-> "list", items |-> s]
NdArray(rows) == [type |-> "ndarray", items |-> rows]
PyStr(s) == [type |-> "str", items |-> <<s>>]
PyInt(n) == [type |-> "int", items |-> <<n>>]

Range(s) == { s[i] : i \in 1..Len(s) }

\* Python truthiness of an Optional[List]: None and the empty list are falsy.
Truthy(v) == v.type # "None" /\ Len(v.items) > 0

\* len() of a list or of an ndarray (its number of rows).
PyLen(v) == Len(v.items)

\* np.zeros((0, k)): an array without rows.
NpZeros0 == NdArray(<<>>)

----------------------------------------------------------------------------
(* Images.  A buffer is the pixels it was built from (base) and the marks  *)
(* drawn on it since.  A heap maps the cells a call can reach to buffers:  *)
(* "self" is the wrapper's stored image, "image" and "target_image" are    *)
(* the cells of draw's local copies.                                       *)

NoBuf == [base |-> 0, marks |-> <<>>, shape |-> <<0, 0>>]
NoResult ==
    [kind |-> "none", left |-> NoBuf, right |-> NoBuf, shape |-> <<0, 0>>, captions |-> <<>>]
\* An exception: its kind (type and message), the names and the lengths its message
\* states.
Err(kind, names, lens) == [kind |-> kind, names |-> names, lens |-> lens]
NoError == Err("none", {}, <<>>)

E_CLASS_NAMES == "ValueError: class_names includes class names that the model was not trained on"
E_ALL_OR_NONE == "ValueError: should either all be None or all not None"
E_LEN_IDS == "ValueError: target_bboxes and target_class_ids lengths should be equal"
E_LEN_IMAGES == "ValueError: lengths should be equal to the amount of images"
E_INDEX == "IndexError"
E_FORMAT == "bbox format error"
E_BROADCAST == "ValueError: could not broadcast input array"

HeapOf(image) == [self |-> image, image |-> NoBuf, target_image |-> NoBuf]


\* Faulty variant: the image is not copied: draw works on the stored buffer itself.
ImageCopyAlias(heap, src, fresh) == [heap |-> heap, ref |-> src]

\* self.image.copy(): a fresh buffer with the same pixels, bound to cell `fresh`.
ImageCopy(heap, src, fresh) ==
    [heap |-> [heap EXCEPT ![fresh] = heap[src]], ref |-> fresh]

\* draw_bbox / draw_label / overlay_segmentation draw on the buffer they are given
\* and return it.
DrawOn(heap, ref, mark) ==
    [heap EXCEPT ![ref] = [@ EXCEPT !.marks = Append(@, mark)]]

\* generate_color_mapping(n): n colours, the same for the same n.
generate_color_mapping(n) == [i \in 1..n |-> <<"generated", i>>]

\* str(round(confidence, 2)), confidences in thousandths, the result in hundredths.
Round2(c) == (c + 5) \div 10

\* BBoxFormatFactory.get: the known formats; anything else has no format object.
KnownFormats == {"xyxy", "xywh"}
FormatKnown(fmt) == fmt.type = "str" /\ fmt.items[1] \in KnownFormats

\* convert_bboxes(bboxes, image_shape, source_format, "xyxy").
ConvertBox(b, fmt) ==
    IF fmt = "xywh" THEN <<b[1], b[2], b[1] + b[3], b[2] + b[4]>> ELSE b
convert_bboxes(bboxes, fmt) ==
    NdArray([i \in 1..Len(bboxes.items) |-> ConvertBox(bboxes.items[i], fmt.items[1])])

----------------------------------------------------------------------------
(* ImageDetectionPrediction.draw *)

\* np.argsort(confidence): every order of the indices that sorts the confidences
\* ascending (the default sort is not stable, so equal confidences may come in
\* either order).
Perms(n) == { p \in [1..n -> 1..n] : \A i, j \in 1..n : i # j => p[i] # p[j] }

\* Faulty variant: the predictions are taken in their stored order, unsorted.
ArgsortsStoredOrder(conf) == { [i \in 1..Len(conf) |-> i] }

Argsorts(conf) ==
    { p \in Perms(Len(conf)) :
        \A i \in 1..Len(conf) - 1 : conf[p[i]] <= conf[p[i + 1]] }

\* class_names if class_names else self.class_names
ClassNamesToShow(self, class_names) ==
    IF Truthy(class_names) THEN class_names.items ELSE self.class_names

\* [i for i, class_name in enumerate(self.class_names) if class_name in class_names_to_show]
ClassIdsToShow(self, class_names) ==
    { i - 1 : i \in { k \in 1..Len(self.class_names) :
                        self.class_names[k] \in Range(ClassNamesToShow(self, class_names)) } }


\* Faulty variant: the difference is taken the wrong way round.
InvalidClassNamesReversed(self, class_names) ==
    Range(self.class_names) \ Range(ClassNamesToShow(self, class_names))

\* set(class_names_to_show) - set(self.class_names)
InvalidClassNames(self, class_names) ==
    Range(ClassNamesToShow(self, class_names)) \ Range(self.class_names)

\* color_mapping or generate_color_mapping(len(self.class_names))
ColorMapping(self, color_mapping) ==
    IF Truthy(color_mapping) THEN color_mapping.items
    ELSE generate_color_mapping(Len(self.class_names))

\* The loop over np.argsort(self.prediction.confidence), from position k of `order`.
RECURSIVE DrawPredictions(_, _, _, _, _, _, _)
DrawPredictions(self, a, order, k, heap, ref, log) ==
    IF k > Len(order) THEN [heap |-> heap, log |-> log]
    ELSE LET pred_i == order[k]
             class_id == self.prediction.labels[pred_i]
             score == IF ~a.show_confidence THEN <<>>
                      ELSE <<Round2(self.prediction.confidence[pred_i])>>
             mark == [fn |-> "draw_bbox",
                      on |-> "predictions",
                      idx |-> pred_i,
                      title |-> <<self.class_names[class_id + 1]>> \o score,
                      color |-> ColorMapping(self, a.color_mapping)[class_id + 1],
                      box_thickness |-> a.box_thickness,
                      box |-> self.prediction.bboxes_xyxy[pred_i]]
         IN IF class_id \in ClassIdsToShow(self, a.class_names)
            THEN DrawPredictions(self, a, order, k + 1, DrawOn(heap, ref, mark), ref,
                                 Append(log, mark))
            ELSE DrawPredictions(self, a, order, k + 1, heap, ref, log)

\* The loop over range(len(target_bboxes_xyxy)), from index k; reading
\* target_class_ids past its end raises IndexError.
RECURSIVE DrawTargets(_, _, _, _, _, _, _, _)
DrawTargets(self, a, xyxy, ids, k, heap, ref, log) ==
    IF k > Len(xyxy.items) THEN [heap |-> heap, log |-> log, raised |-> NoError]
    ELSE IF k > Len(ids.items)
    THEN [heap |-> heap, log |-> log, raised |-> Err(E_INDEX, {}, <<>>)]
    ELSE LET class_id == ids.items[k]
             mark == [fn |-> "draw_bbox",
                      on |-> "ground truth",
                      idx |-> k,
                      title |-> <<self.class_names[class_id + 1]>>,
                      color |-> ColorMapping(self, a.color_mapping)[class_id + 1],
                      box_thickness |-> a.box_thickness,
                      box |-> xyxy.items[k]]
         IN IF class_id \in ClassIdsToShow(self, a.class_names)
            THEN DrawTargets(self, a, xyxy, ids, k + 1, DrawOn(heap, ref, mark), ref,
                             Append(log, mark))
            ELSE DrawTargets(self, a, xyxy, ids, k + 1, heap, ref, log)

\* The outcome of a call: the exception (if any), the heap it leaves, the renderer
\* invocations it made and the image it returned.
Outcome(err, heap, log, out) == [raised |-> err, heap |-> heap, log |-> log, out |-> out]

\* An image as draw returns it when no canvas is composed.
Plain(buf) ==
    [kind |-> "image", left |-> buf, right |-> NoBuf, shape |-> buf.shape, captions |-> <<>>]

\* new_width, new_height = int(width + width / 20), int(height + height / 8)
NewWidth(width) == width + width \div 20
NewHeight(height) == height + height \div 8

padding_top == 60
padding_left == 10

Max(a, b) == IF a >= b THEN a ELSE b
Min(a, b) == IF a < b THEN a ELSE b

\* The number of indices the slice start:stop selects on an axis of length n: numpy
\* clips the slice to the axis.
SliceLen(n, start, stop) == Max(0, Min(n, stop) - Min(n, start))

\* Faulty variant: an axis is assigned only from an axis of the same length.
BroadcastsExact(src, dst) == src = dst

\* An axis of length src can be assigned to an axis of length dst when the lengths
\* are equal or src is 1 (numpy broadcasting).
Broadcasts(src, dst) == src = dst \/ src = 1

\* The rows and columns of canvas[padding_top : padding_top + height,
\* padding_left : padding_left + width] for an image of the given shape.
PasteRegion(shape) ==
    <<SliceLen(NewHeight(shape[1]), padding_top, padding_top + shape[1]),
      SliceLen(NewWidth(shape[2]), padding_left, padding_left + shape[2])>>

\* Whether the assignments of lines 213-214 succeed.
CanPaste(shape) ==
    /\ Broadcasts(shape[1], PasteRegion(shape)[1])
    /\ Broadcasts(shape[2], PasteRegion(shape)[2])

\* What the canvas holds of a buffer: the region it was assigned to.
Pasted(buf) == [buf EXCEPT !.shape = PasteRegion(buf.shape)]

\* The side-by-side canvas of lines 202-218: cv2.hconcat of the two captioned
\* canvases.
Compose(heap, ref, tref) ==
    [kind |-> "side by side", left |-> Pasted(heap[ref]), right |-> Pasted(heap[tref]),
     shape |-> <<NewHeight(heap[tref].shape[1]), 2 * NewWidth(heap[tref].shape[2])>>,
     captions |-> <<"Predictions", "Ground Truth">>]

\* Lines 202-219 after the ground-truth loop t.
ComposeTargets(t, ref, tref) ==
    IF t.raised # NoError THEN Outcome(t.raised, t.heap, t.log, NoResult)
    ELSE IF ~CanPaste(t.heap[tref].shape)
    THEN Outcome(Err(E_BROADCAST, {}, <<>>), t.heap, t.log, NoResult)
    ELSE Outcome(NoError, t.heap, t.log, Compose(t.heap, ref, tref))

\* Lines 186-200: target_image = self.image.copy() (the copy tc) and the loop.
PlotTargets(self, a, xyxy, ids, p, ref, tc) ==
    ComposeTargets(DrawTargets(self, a, xyxy, ids, 1, tc.heap, tc.ref, p.log), ref, tc.ref)

\* Faulty variant: the ground truth is plotted whenever the caller gave an array.
plot_targets_when_given(a, target_bboxes_xyxy) == a.target_bboxes # PyNone

\* plot_targets = any([len(tbbx) > 0 for tbbx in target_bboxes_xyxy])
plot_targets(a, target_bboxes_xyxy) ==
    \E i \in 1..PyLen(target_bboxes_xyxy) : Len(target_bboxes_xyxy.items[i]) > 0

\* Lines 167-219 after the predictions loop p.
AfterPredictions(self, a, xyxy, ids, p, ref) ==
    IF ~plot_targets(a, xyxy)
    THEN Outcome(NoError, p.heap, p.log, Plain(p.heap[ref]))
    ELSE PlotTargets(self, a, xyxy, ids, p, ref, ImageCopy(p.heap, "self", "target_image"))

\* Lines 167-184 with the converted ground truth.
WithTargets(self, a, order, c, xyxy, ids) ==
    AfterPredictions(self, a, xyxy, ids,
                     DrawPredictions(self, a, order, 1, c.heap, c.ref, <<>>), c.ref)

\* Lines 145-165 with image = self.image.copy() (the copy c) and the ground truth
\* defaulted to empty arrays.
Validated(self, a, order, c, target_bboxes, target_class_ids) ==
    IF Cardinality(InvalidClassNames(self, a.class_names)) > 0
    THEN Outcome(Err(E_CLASS_NAMES, InvalidClassNames(self, a.class_names), <<>>),
                 c.heap, <<>>, NoResult)
    ELSE IF PyLen(target_bboxes) > 0 /\ ~FormatKnown(a.target_bboxes_format)
    THEN Outcome(Err(E_FORMAT, {}, <<>>), c.heap, <<>>, NoResult)
    ELSE IF PyLen(target_bboxes) > 0
    THEN WithTargets(self, a, order, c,
                     convert_bboxes(target_bboxes, a.target_bboxes_format), target_class_ids)
    ELSE WithTargets(self, a, order, c, target_bboxes, target_class_ids)

DetectionDraw(self, a, order) ==
    Validated(self, a, order, ImageCopy(HeapOf(self.image), "self", "image"),
              IF a.target_bboxes # PyNone THEN a.target_bboxes ELSE NpZeros0,
              IF a.target_class_ids # PyNone THEN a.target_class_ids ELSE NpZeros0)

----------------------------------------------------------------------------
(* ImageClassificationPrediction.draw and ImageSegmentationPrediction.draw *)

\* A renderer draws `mark` on the copy c and returns the buffer it drew on.
Rendered(heap, ref, mark) ==
    Outcome(NoError, heap, <<mark>>, Plain(heap[ref]))
RenderOn(c, mark) == Rendered(DrawOn(c.heap, c.ref, mark), c.ref, mark)

\* Line 73: the label renderer is given the label and the confidence (the
\* confidence as a sequence, empty when none is given); show_confidence is not read.
ClassificationDraw(self, a) ==
    RenderOn(ImageCopy(HeapOf(self.image), "self", "image"),
             [fn |-> "draw_label",
              label |-> self.class_names[self.prediction.label + 1],
              confidence |-> <<self.prediction.confidence>>])

\* class_names or self.class_names
SegmentationNames(self, class_names) ==
    IF Truthy(class_names) THEN class_names.items ELSE self.class_names

\* Faulty variant: nothing is prepended.
WithoutBackground(names) == names

\* if len(class_names) == 1: class_names = ["background"] + class_names
WithBackground(names) ==
    IF Len(names) = 1 THEN <<"background">> \o names ELSE names

SegmentationOverlay(self, a, class_names) ==
    [fn |-> "overlay_segmentation",
     pred_mask |-> self.prediction,
     num_classes |-> Len(class_names),
     alpha |-> a.alpha,
     colors |-> IF Truthy(a.color_mapping) THEN a.color_mapping.items
                ELSE generate_color_mapping(Len(class_names)),
     class_names |-> class_names]

SegmentationDraw(self, a) ==
    RenderOn(ImageCopy(HeapOf(self.image), "self", "image"),
             SegmentationOverlay(self, a, WithBackground(SegmentationNames(self, a.class_names))))

----------------------------------------------------------------------------
(* The single-item draw / show / save of the three wrappers.  An effect is *)
(* an outcome together with what was handed to show_image and save_image.  *)

Effect(o, shown_, saved_) ==
    [raised |-> o.raised, heap |-> o.heap, log |-> o.log, out |-> o.out,
     shown |-> shown_, saved |-> saved_]

\* The arguments ImageSegmentationPrediction.show and save pass on to draw.
SegmentationShowArgs(self, a) ==
    [alpha |-> a.alpha, color_mapping |-> a.color_mapping,
     class_names |-> PyList(self.class_names)]

ItemDraw(self, a, order) ==
    IF self.kind = "detection" THEN DetectionDraw(self, a, order)
    ELSE IF self.kind = "classification" THEN ClassificationDraw(self, a)
    ELSE SegmentationDraw(self, a)

\* image = self.draw(...) as show and save call it.
DrawForShow(self, a, order) ==
    IF self.kind = "segmentation"
    THEN SegmentationDraw(self, SegmentationShowArgs(self, a))
    ELSE ItemDraw(self, a, order)

\* show_image(image) after the draw o.
ShowImage(o) ==
    IF o.raised # NoError THEN Effect(o, <<>>, <<>>) ELSE Effect(o, <<o.out>>, <<>>)

\* save_image(image=image, path=output_path) after the draw o.
SaveImage(o, output_path) ==
    IF o.raised # NoError THEN Effect(o, <<>>, <<>>)
    ELSE Effect(o, <<>>, <<[path |-> output_path, image |-> o.out]>>)

ItemShow(self, a, order) == ShowImage(DrawForShow(self, a, order))

ItemSave(self, output_path, a, order) == SaveImage(DrawForShow(self, a, order), output_path)

\* The orders np.argsort may give for a wrapper's predictions.
Orders(self) ==
    IF self.kind = "detection" THEN Argsorts(self.prediction.confidence) ELSE {<<>>}

----------------------------------------------------------------------------
(* The inputs of the single-image specification. *)

Vocabulary == <<"cat", "dog">>
Confidences == {254, 256}
CustomColors == <<<<"custom", 1>>, <<"custom", 2>>>>

\* The k-th predicted box (absolute xyxy pixels).
PredBox(k) == <<10 * k, 10 * k, 10 * k + 5, 10 * k + 5>>
\* The k-th ground-truth box as the caller gives it.
GtBox(k) == <<k, k, 3, 3>>

DetectionPredictions(maxBoxes) ==
    UNION { { [bboxes_xyxy |-> [k \in 1..n |-> PredBox(k)], labels |-> l, confidence |-> c] :
                l \in [1..n -> 0..Len(Vocabulary) - 1], c \in [1..n -> Confidences] } :
            n \in 0..maxBoxes }

\* Image shapes (height, width): one the canvas margins fit, one they do not.
DefaultShape == <<480, 200>>
ImageShapes == { DefaultShape, <<100, 100>> }

Pristine(i) == [base |-> i, marks |-> <<>>, shape |-> DefaultShape]

\* The wrapper w around an image of the given shape.
Sized(w, shape) == [w EXCEPT !.image.shape = shape]

DetectionWrapper(i, p) ==
    [kind |-> "detection", image |-> Pristine(i), prediction |-> p, class_names |-> Vocabulary]
ClassificationWrapper(i, p) ==
    [kind |-> "classification", image |-> Pristine(i), prediction |-> p,
     class_names |-> Vocabulary]
SegmentationWrapper(i, names) ==
    [kind |-> "segmentation", image |-> Pristine(i), prediction |-> <<"mask", i>>,
     class_names |-> names]

ClassificationPredictions ==
    [label : 0..Len(Vocabulary) - 1, confidence : Confidences]
SegmentationVocabularies == {<<"foreground">>, Vocabulary}

Styles ==
    { [box_thickness |-> PyNone, color_mapping |-> PyNone],
      [box_thickness |-> PyInt(2), color_mapping |-> PyList(CustomColors)] }
ClassNameChoices ==
    { PyNone, PyList(<<>>), PyList(<<"cat">>), PyList(<<"dog", "cat">>),
      PyList(<<"bird">>), PyList(<<"cat", "bird">>) }
FormatChoices == { PyNone, PyStr("xyxy"), PyStr("xywh") }
TargetBoxChoices ==
    { PyNone, NdArray(<<>>), NdArray(<<GtBox(1)>>), NdArray(<<GtBox(1), GtBox(2)>>) }
TargetIdChoices ==
    { PyNone, NdArray(<<>>), NdArray(<<1>>), NdArray(<<0, 1>>) }

DetectionArgs ==
    { [box_thickness |-> s.box_thickness, show_confidence |-> sc,
       color_mapping |-> s.color_mapping, target_bboxes |-> tb,
       target_bboxes_format |-> f, target_class_ids |-> ti, class_names |-> cn] :
      s \in Styles, sc \in BOOLEAN, tb \in TargetBoxChoices, f \in FormatChoices,
      ti \in TargetIdChoices, cn \in ClassNameChoices }
ClassificationArgs == { [show_confidence |-> sc] : sc \in BOOLEAN }
SegmentationColorChoices == { PyNone, PyList(CustomColors) }
SegmentationDrawArgs ==
    { [alpha |-> 60, color_mapping |-> cm, class_names |-> cn] :
      cm \in SegmentationColorChoices,
      cn \in { PyNone, PyList(<<>>), PyList(<<"foreground">>), PyList(Vocabulary) } }
SegmentationShowArgSet ==
    { [alpha |-> 60, color_mapping |-> cm] : cm \in SegmentationColorChoices }

DrawArgs(self) ==
    IF self.kind = "detection" THEN DetectionArgs
    ELSE IF self.kind = "classification" THEN ClassificationArgs
    ELSE SegmentationDrawArgs
ShowArgs(self) ==
    IF self.kind = "segmentation" THEN SegmentationShowArgSet ELSE DrawArgs(self)

OutputPaths == { <<"out.jpg">> }

----------------------------------------------------------------------------
(* The single-image specification: one wrapper, and a caller that calls    *)
(* draw, show and save on it in any order with any arguments.              *)

NoArgs == [none |-> TRUE]

InitCommon ==
    /\ dirs = {}
    /\ files = {}
    /\ op = "idle"
    /\ args = NoArgs
    /\ raised = NoError
    /\ result = NoResult
    /\ renderer = <<>>
    /\ shown = <<>>
    /\ saved = <<>>
    /\ delegated = <<>>
    /\ gen_pos = 0
    /\ gens = <<>>

InitImage ==
    /\ cls = "ImagePrediction"
    /\ lst \in { <<Sized(DetectionWrapper(1, p), s)>> :
                     p \in DetectionPredictions(MaxBoxes), s \in ImageShapes }
           \cup { <<ClassificationWrapper(1, p)>> : p \in ClassificationPredictions }
           \cup { <<SegmentationWrapper(1, n)>> : n \in SegmentationVocabularies }
    /\ InitCommon

\* What a call leaves in the wrapper's stored image.
Stored(i, e) == [lst EXCEPT ![i] = [@ EXCEPT !.image = e.heap["self"]]]

DrawReturns(i, a, o) ==
    /\ lst' = Stored(i, o)
    /\ op' = "draw"
    /\ args' = a
    /\ raised' = o.raised
    /\ result' = o.out
    /\ renderer' = o.log

Draw(i) ==
    /\ op = "idle"
    /\ \E a \in DrawArgs(lst[i]), order \in Orders(lst[i]) :
         DrawReturns(i, a, ItemDraw(lst[i], a, order))
    /\ UNCHANGED <<cls, dirs, files, shown, saved, delegated, gen_pos, gens>>

ShowReturns(i, a, e) ==
    /\ lst' = Stored(i, e)
    /\ op' = "show"
    /\ args' = a
    /\ raised' = e.raised
    /\ renderer' = e.log
    /\ shown' = e.shown

Show(i) ==
    /\ op = "idle"
    /\ \E a \in ShowArgs(lst[i]), order \in Orders(lst[i]) :
         ShowReturns(i, a, ItemShow(lst[i], a, order))
    /\ UNCHANGED <<cls, dirs, files, result, saved, delegated, gen_pos, gens>>

SaveReturns(i, a, e) ==
    /\ lst' = Stored(i, e)
    /\ op' = "save"
    /\ args' = a
    /\ raised' = e.raised
    /\ renderer' = e.log
    /\ saved' = e.saved
    /\ files' = files \cup { e.saved[k].path : k \in 1..Len(e.saved) }

Save(i) ==
    /\ op = "idle"
    /\ \E a \in ShowArgs(lst[i]), order \in Orders(lst[i]), output_path \in OutputPaths :
         SaveReturns(i, a @@ [output_path |-> output_path],
                     ItemSave(lst[i], output_path, a, order))
    /\ UNCHANGED <<cls, dirs, result, shown, delegated, gen_pos, gens>>

\* The caller is done with the call's result and goes on to its next call.
Return ==
    /\ op # "idle"
    /\ op' = "idle"
    /\ args' = NoArgs
    /\ raised' = NoError
    /\ result' = NoResult
    /\ renderer' = <<>>
    /\ shown' = <<>>
    /\ saved' = <<>>
    /\ delegated' = <<>>
    /\ UNCHANGED <<cls, lst, dirs, files, gen_pos, gens>>

NextImage ==
    \/ \E i \in 1..Len(lst) : Draw(i)
    \/ \E i \in 1..Len(lst) : Show(i)
    \/ \E i \in 1..Len(lst) : Save(i)
    \/ Return

SpecImage == InitImage /\ [][NextImage]_vars

----------------------------------------------------------------------------
(* The canvas specification: the same caller and calls, on one detection   *)
(* wrapper whose image has any of a range of heights and widths around the *)
(* sizes at which the canvas margins start to fit.                         *)

CanvasHeights == {1, 2, 8, 59, 60, 100, 479, 480, 481}
CanvasWidths == {1, 2, 20, 100, 199, 200, 201}
CanvasPrediction ==
    [bboxes_xyxy |-> <<PredBox(1)>>, labels |-> <<0>>, confidence |-> <<256>>]

InitCanvas ==
    /\ cls = "ImagePrediction"
    /\ lst \in { <<Sized(DetectionWrapper(1, CanvasPrediction), <<h, w>>)>> :
                   h \in CanvasHeights, w \in CanvasWidths }
    /\ InitCommon

SpecCanvas == InitCanvas /\ [][NextImage]_vars

----------------------------------------------------------------------------
(* Paths.  A string is the sequence of its pieces; "/" is a piece.         *)

\* str(i) for i >= 0: its decimal digits.
DigitChars == <<"0", "1", "2", "3", "4", "5", "6", "7", "8", "9">>
RECURSIVE Digits(_)
Digits(i) ==
    IF i < 10 THEN <<DigitChars[i + 1]>>
    ELSE Digits(i \div 10) \o <<DigitChars[(i % 10) + 1]>>


\* Faulty variant: the files are numbered from 1.
PredFileNameFromOne(i) == <<"pred_">> \o Digits(i + 1) \o <<".jpg">>

\* f"pred_{i}.jpg"
PredFileName(i) == <<"pred_">> \o Digits(i) \o <<".jpg">>

\* os.path.join(a, b) for a relative b.
PathJoin(a, b) ==
    IF Len(a) = 0 THEN b
    ELSE IF a[Len(a)] = "/" THEN a \o b
    ELSE a \o <<"/">> \o b

\* The directory a path names: the path without its trailing separators.
RECURSIVE NormDir(_)
NormDir(d) ==
    IF Len(d) > 1 /\ d[Len(d)] = "/" THEN NormDir(SubSeq(d, 1, Len(d) - 1)) ELSE d

\* os.makedirs(folder, exist_ok=True): the folder and every missing parent.
MakeDirs(folder) ==
    { NormDir(SubSeq(folder, 1, k)) :
        k \in { j \in 1..Len(folder) :
                  /\ folder[j] # "/"
                  /\ (j = Len(folder) \/ folder[j + 1] = "/") } }

----------------------------------------------------------------------------
(* ImagesDetectionPrediction._check_target_args *)

IsNone(v) == v.type = "None"

Checked(err, tb, ti) == [raised |-> err, target_bboxes |-> tb, target_class_ids |-> ti]


\* Faulty variant: one placeholder, whatever the number of images.
NoneListOfOne(n) == PyList(<<PyNone>>)

\* [None for _ in range(n)]
NoneList(n) == PyList([k \in 1..n |-> PyNone])


\* Faulty variant: the lengths are compared with each other only, not with the images.
CheckLengthsIdsOnly(self_lst, tb, ti) ==
    IF ~IsNone(tb) /\ ~IsNone(ti) /\ PyLen(tb) # PyLen(ti)
    THEN Checked(Err(E_LEN_IDS, {}, <<PyLen(tb), PyLen(ti)>>), tb, ti)
    ELSE IF IsNone(tb)
    THEN Checked(NoError, NoneList(Len(self_lst)), NoneList(Len(self_lst)))
    ELSE Checked(NoError, tb, ti)

\* Lines 503-514 with a single array already made a one-element list.
CheckLengths(self_lst, tb, ti) ==
    IF ~IsNone(tb) /\ ~IsNone(ti) /\ PyLen(tb) # PyLen(ti)
    THEN Checked(Err(E_LEN_IDS, {}, <<PyLen(tb), PyLen(ti)>>), tb, ti)
    ELSE IF ~IsNone(tb) /\ ~IsNone(ti) /\ PyLen(tb) # Len(self_lst)
    THEN Checked(Err(E_LEN_IMAGES, {}, <<PyLen(tb), Len(self_lst)>>), tb, ti)
    ELSE IF IsNone(tb)
    THEN Checked(NoError, NoneList(Len(self_lst)), NoneList(Len(self_lst)))
    ELSE Checked(NoError, tb, ti)

\* if isinstance(x, np.ndarray): x = [x]
AsList(x) == IF x.type = "ndarray" THEN PyList(<<x>>) ELSE x


\* Faulty variant: the format is left out of the test.
AllOrNoneWithoutFormat(target_bboxes, target_bboxes_format, target_class_ids) ==
    IsNone(target_bboxes) = IsNone(target_class_ids)

\* Lines 492-496: all three None, or none of them.
AllOrNone(target_bboxes, target_bboxes_format, target_class_ids) ==
    \/ (IsNone(target_bboxes) /\ IsNone(target_bboxes_format) /\ IsNone(target_class_ids))
    \/ (~IsNone(target_bboxes) /\ ~IsNone(target_bboxes_format)
        /\ ~IsNone(target_class_ids))

check_target_args(self_lst, target_bboxes, target_bboxes_format, target_class_ids) ==
    IF ~AllOrNone(target_bboxes, target_bboxes_format, target_class_ids)
    THEN Checked(Err(E_ALL_OR_NONE, {}, <<>>), target_bboxes, target_class_ids)
    ELSE CheckLengths(self_lst, AsList(target_bboxes), AsList(target_class_ids))

----------------------------------------------------------------------------
(* The collections' show and save: the single-item calls they issue, and   *)
(* the loop that makes them.                                               *)


ItemCall(k, name, output_path, a) ==
    [idx |-> k, op |-> name, output_path |-> output_path, args |-> a]

\* zip(self._images_prediction_lst, target_bboxes, target_class_ids) stops with its
\* shortest argument.
ZipLen(self_lst, tb, ti) == Min(Len(self_lst), Min(PyLen(tb), PyLen(ti)))


\* Faulty variant: every image is shown with the ground truth of the first.
DetectionShowCallsFirstTarget(self_lst, a, tb, ti) ==
    [k \in 1..ZipLen(self_lst, tb, ti) |->
        ItemCall(k, "show", <<>>,
                 [box_thickness |-> a.box_thickness,
                  show_confidence |-> a.show_confidence,
                  color_mapping |-> a.color_mapping,
                  target_bboxes |-> tb.items[1],
                  target_bboxes_format |-> a.target_bboxes_format,
                  target_class_ids |-> ti.items[1],
                  class_names |-> a.class_names])]

\* Lines 475-484: the prediction.show(...) calls of ImagesDetectionPrediction.show.
DetectionShowCalls(self_lst, a, tb, ti) ==
    [k \in 1..ZipLen(self_lst, tb, ti) |->
        ItemCall(k, "show", <<>>,
                 [box_thickness |-> a.box_thickness,
                  show_confidence |-> a.show_confidence,
                  color_mapping |-> a.color_mapping,
                  target_bboxes |-> tb.items[k],
                  target_bboxes_format |-> a.target_bboxes_format,
                  target_class_ids |-> ti.items[k],
                  class_names |-> a.class_names])]

\* Lines 550-558: the prediction.save(...) calls of ImagesDetectionPrediction.save;
\* the ground-truth parameters are not passed and keep their default, None.
DetectionSaveCalls(self_lst, output_folder, a, tb, ti) ==
    [k \in 1..ZipLen(self_lst, tb, ti) |->
        ItemCall(k, "save", PathJoin(output_folder, PredFileName(k - 1)),
                 [box_thickness |-> a.box_thickness,
                  show_confidence |-> a.show_confidence,
                  color_mapping |-> a.color_mapping,
                  target_bboxes |-> PyNone,
                  target_bboxes_format |-> PyNone,
                  target_class_ids |-> PyNone,
                  class_names |-> a.class_names])]

\* ImagesClassificationPrediction and ImagesSegmentationPrediction: show and save
\* pass their one option on to every element.
PlainShowCalls(self_lst, a) ==
    [k \in 1..Len(self_lst) |-> ItemCall(k, "show", <<>>, a)]
PlainSaveCalls(self_lst, output_folder, a) ==
    [k \in 1..Len(self_lst) |->
        ItemCall(k, "save", PathJoin(output_folder, PredFileName(k - 1)), a)]

Acc(l, err, log, shown_, saved_, issued) ==
    [lst |-> l, raised |-> err, log |-> log, shown |-> shown_, saved |-> saved_,
     delegated |-> issued]

\* One call of the loop: prediction.show(...) or prediction.save(...).
ItemCallEffect(self, c, order) ==
    IF c.op = "show" THEN ItemShow(self, c.args, order)
    ELSE ItemSave(self, c.output_path, c.args, order)

\* The state of the loop after the call c had the effect e.
AfterCall(acc, c, e) ==
    Acc([acc.lst EXCEPT ![c.idx] = [@ EXCEPT !.image = e.heap["self"]]],
        e.raised, acc.log \o e.log, acc.shown \o e.shown, acc.saved \o e.saved,
        Append(acc.delegated, c))

\* The for loop: the calls in order; an exception of one ends the loop.
RECURSIVE CollectionLoop(_, _, _, _)
CollectionLoop(calls, orders, k, acc) ==
    IF k > Len(calls) \/ acc.raised # NoError THEN acc
    ELSE CollectionLoop(calls, orders, k + 1,
             AfterCall(acc, calls[k],
                       ItemCallEffect(acc.lst[calls[k].idx], calls[k], orders[calls[k].idx])))

RunCalls(self_lst, calls, orders) ==
    CollectionLoop(calls, orders, 1, Acc(self_lst, NoError, <<>>, <<>>, <<>>, <<>>))

\* A collection call that raised before its loop.
Refused(self_lst, err) == Acc(self_lst, err, <<>>, <<>>, <<>>, <<>>)

\* Lines 475-484 after _check_target_args returned chk.
ShowChecked(self_lst, a, orders, chk) ==
    IF chk.raised # NoError THEN Refused(self_lst, chk.raised)
    ELSE RunCalls(self_lst,
                  DetectionShowCalls(self_lst, a, chk.target_bboxes, chk.target_class_ids),
                  orders)

ImagesDetectionShow(self_lst, a, orders) ==
    ShowChecked(self_lst, a, orders,
                check_target_args(self_lst, a.target_bboxes, a.target_bboxes_format,
                                  a.target_class_ids))

\* Lines 550-558 after _check_target_args returned chk.
SaveChecked(self_lst, output_folder, a, orders, chk) ==
    IF chk.raised # NoError THEN Refused(self_lst, chk.raised)
    ELSE RunCalls(self_lst,
                  DetectionSaveCalls(self_lst, output_folder, a, chk.target_bboxes,
                                     chk.target_class_ids),
                  orders)

ImagesDetectionSave(self_lst, output_folder, a, orders) ==
    SaveChecked(self_lst, output_folder, a, orders,
                check_target_args(self_lst, a.target_bboxes, a.target_bboxes_format,
                                  a.target_class_ids))

\* if output_folder: os.makedirs(output_folder, exist_ok=True)
EnsureFolder(existing, output_folder) ==
    IF Len(output_folder) > 0 THEN existing \cup MakeDirs(output_folder) ELSE existing

----------------------------------------------------------------------------
(* The image-collection specification: a collection of 0..MaxImages        *)
(* wrappers of one kind and a caller that calls show, save and             *)
(* _check_target_args on it with any arguments.                            *)

Kinds == {"classification", "detection", "segmentation"}

\* The prediction of the k-th image of a detection collection.
CollectionDetection(k) ==
    [bboxes_xyxy |-> <<PredBox(1), PredBox(2)>>,
     labels |-> <<k % 2, (k + 1) % 2>>,
     confidence |-> <<256, 254>>]
CollectionClassification(k) == [label |-> k % 2, confidence |-> 256]

Collection(kind, n) ==
    [k \in 1..n |->
        IF kind = "detection" THEN DetectionWrapper(k, CollectionDetection(k))
        ELSE IF kind = "classification"
        THEN ClassificationWrapper(k, CollectionClassification(k))
        ELSE SegmentationWrapper(k, <<"foreground">>)]

\* The ground truth of the k-th image as the caller gives it.
GtBoxesOf(k) == NdArray(<<GtBox(k)>>)
GtIdsOf(k) == NdArray(<<k % 2>>)

\* A single array, as for one image: its length as an array is 2.
SingleGtBoxes == NdArray(<<GtBox(1), GtBox(2)>>)
SingleGtIds == NdArray(<<0, 1>>)

CollectionTargetBoxes ==
    { PyNone, SingleGtBoxes }
    \cup { PyList([k \in 1..n |-> GtBoxesOf(k)]) : n \in 0..MaxImages + 1 }
CollectionTargetIds ==
    { PyNone, SingleGtIds }
    \cup { PyList([k \in 1..n |-> GtIdsOf(k)]) : n \in 0..MaxImages + 1 }
CollectionFormats == { PyNone, PyStr("xyxy") }
CollectionStyles ==
    { [box_thickness |-> PyNone, show_confidence |-> TRUE, color_mapping |-> PyNone],
      [box_thickness |-> PyInt(2), show_confidence |-> FALSE,
       color_mapping |-> PyList(CustomColors)] }
CollectionClassNames == { PyNone, PyList(<<"cat">>), PyList(<<"bird">>) }

CollectionDetectionArgs ==
    { [box_thickness |-> s.box_thickness, show_confidence |-> s.show_confidence,
       color_mapping |-> s.color_mapping, target_bboxes |-> tb,
       target_bboxes_format |-> f, target_class_ids |-> ti, class_names |-> cn] :
      s \in CollectionStyles, tb \in CollectionTargetBoxes, f \in CollectionFormats,
      ti \in CollectionTargetIds, cn \in CollectionClassNames }

\* ImagesClassificationPrediction.show(show_confidence) and
\* ImagesSegmentationPrediction.show(color_mapping); alpha keeps its default, 0.6.
PlainArgs ==
    IF cls = "ImagesClassificationPrediction" THEN ClassificationArgs
    ELSE SegmentationShowArgSet

OutputFolders == { <<>>, <<"out">>, <<"runs", "/", "exp", "/">> }

OrdersOf(self_lst) ==
    { f \in [1..Len(self_lst) -> UNION { Orders(self_lst[k]) : k \in 1..Len(self_lst) }] :
        \A k \in 1..Len(self_lst) : f[k] \in Orders(self_lst[k]) }

CollectionClass(kind) ==
    IF kind = "detection" THEN "ImagesDetectionPrediction"
    ELSE IF kind = "classification" THEN "ImagesClassificationPrediction"
    ELSE "ImagesSegmentationPrediction"

InitImages ==
    /\ cls \in { CollectionClass(kind) : kind \in Kinds }
    /\ lst \in { Collection(kind, n) :
                   kind \in { x \in Kinds : CollectionClass(x) = cls }, n \in 0..MaxImages }
    /\ InitCommon

\* What a collection call leaves in the state.
Returned(name, a, acc) ==
    /\ lst' = acc.lst
    /\ op' = name
    /\ args' = a
    /\ raised' = acc.raised
    /\ renderer' = acc.log
    /\ shown' = acc.shown
    /\ saved' = acc.saved
    /\ delegated' = acc.delegated
    /\ files' = files \cup { acc.saved[k].path : k \in 1..Len(acc.saved) }

DetectionCollectionShow ==
    /\ op = "idle"
    /\ cls = "ImagesDetectionPrediction"
    /\ \E a \in CollectionDetectionArgs, orders \in OrdersOf(lst) :
         Returned("images.show", a, ImagesDetectionShow(lst, a, orders))
    /\ UNCHANGED <<cls, dirs, result, gen_pos, gens>>

DetectionCollectionSave ==
    /\ op = "idle"
    /\ cls = "ImagesDetectionPrediction"
    /\ \E a \in CollectionDetectionArgs, orders \in OrdersOf(lst),
          output_folder \in OutputFolders :
         /\ dirs' = EnsureFolder(dirs, output_folder)
         /\ Returned("images.save", a @@ [output_folder |-> output_folder],
                     ImagesDetectionSave(lst, output_folder, a, orders))
    /\ UNCHANGED <<cls, result, gen_pos, gens>>

PlainCollectionShow ==
    /\ op = "idle"
    /\ cls \in {"ImagesClassificationPrediction", "ImagesSegmentationPrediction"}
    /\ \E a \in PlainArgs, orders \in OrdersOf(lst) :
         Returned("images.show", a, RunCalls(lst, PlainShowCalls(lst, a), orders))
    /\ UNCHANGED <<cls, dirs, result, gen_pos, gens>>

PlainCollectionSave ==
    /\ op = "idle"
    /\ cls \in {"ImagesClassificationPrediction", "ImagesSegmentationPrediction"}
    /\ \E a \in PlainArgs, orders \in OrdersOf(lst), output_folder \in OutputFolders :
         /\ dirs' = EnsureFolder(dirs, output_folder)
         /\ Returned("images.save", a @@ [output_folder |-> output_folder],
                     RunCalls(lst, PlainSaveCalls(lst, output_folder, a), orders))
    /\ UNCHANGED <<cls, result, gen_pos, gens>>

\* _check_target_args called on its own; what it returns is kept in `result`.
CheckReturns(a, chk) ==
    /\ op' = "_check_target_args"
    /\ args' = a
    /\ raised' = chk.raised
    /\ result' = IF chk.raised # NoError THEN NoResult
                 ELSE [kind |-> "targets", left |-> chk.target_bboxes,
                       right |-> chk.target_class_ids]

CheckTargetArgs ==
    /\ op = "idle"
    /\ cls = "ImagesDetectionPrediction"
    /\ \E tb \in CollectionTargetBoxes, f \in CollectionFormats,
          ti \in CollectionTargetIds :
         CheckReturns([target_bboxes |-> tb, target_bboxes_format |-> f,
                       target_class_ids |-> ti],
                      check_target_args(lst, tb, f, ti))
    /\ UNCHANGED <<cls, lst, dirs, files, renderer, shown, saved, delegated, gen_pos, gens>>

NextImages ==
    \/ DetectionCollectionShow
    \/ DetectionCollectionSave
    \/ PlainCollectionShow
    \/ PlainCollectionSave
    \/ CheckTargetArgs
    \/ Return

SpecImages == InitImages /\ [][NextImages]_vars

----------------------------------------------------------------------------
(* VideoDetectionPrediction.  _images_prediction_gen is an iterator over   *)
(* the wrappers in lst: gen_pos of them have been pulled.  draw() returns  *)
(* a generator, which runs one step of lines 590-596 each time its         *)
(* consumer asks for a frame: the caller (draw), show_video_from_frames    *)
(* (show) or save_video (save).                                            *)

Generator(consumer, a, born) ==
    [consumer |-> consumer,     \* who pulls the frames
     args |-> a,
     born |-> born,             \* gen_pos when draw() returned it
     status |-> "created",      \* created, running, done (exhausted), raised
     requested |-> 0,           \* frames its consumer has asked for
     pulled |-> 0,              \* source elements it has pulled
     frames |-> <<>>,           \* the frames it has yielded, with their source index
     raised |-> NoError]

\* The arguments of result.draw(...) at lines 591-596: no ground truth.
FrameArgs(a) ==
    [box_thickness |-> a.box_thickness, show_confidence |-> a.show_confidence,
     color_mapping |-> a.color_mapping, target_bboxes |-> PyNone,
     target_bboxes_format |-> PyNone, target_class_ids |-> PyNone,
     class_names |-> a.class_names]


\* Faulty variant: every generator iterates the source from its start, as over a list.
PullIndexFromStart(g, pos) == g.pulled + 1

\* The source element the for loop of generator g gets next: the iterator is shared
\* by every generator, so it is the one after the last pulled by any of them.
PullIndex(g, pos) == pos + 1

\* Faulty variant: the generator takes a second element from the source before it
\* hands the frame over.
YieldedAhead(g, idx, o) ==
    [g EXCEPT !.status = "running", !.requested = @ + 1, !.pulled = @ + 2,
              !.frames = Append(@, [src |-> idx, image |-> o.out])]

\* The generator after its consumer asked for a frame, the for loop pulled element
\* idx and result.draw(...) had the outcome o.
Yielded(g, idx, o) ==
    IF o.raised # NoError
    THEN [g EXCEPT !.status = "raised", !.requested = @ + 1, !.pulled = @ + 1,
                   !.raised = o.raised]
    ELSE [g EXCEPT !.status = "running", !.requested = @ + 1, !.pulled = @ + 1,
                   !.frames = Append(@, [src |-> idx, image |-> o.out])]

\* The generator after its consumer asked for a frame and the source had none left.
Exhausted(g) == [g EXCEPT !.status = "done", !.requested = @ + 1]

VideoArgs ==
    { [box_thickness |-> s.box_thickness, show_confidence |-> s.show_confidence,
       color_mapping |-> s.color_mapping, class_names |-> cn] :
      s \in CollectionStyles, cn \in CollectionClassNames }

Live(g) == g.status \in {"created", "running"}

\* show and save return only when their collaborator has consumed the frames:
\* while one runs, the caller makes no other call.
Blocking(g) == g.consumer # "caller" /\ Live(g)

InitVideo ==
    /\ cls = "VideoDetectionPrediction"
    /\ lst \in { Collection("detection", n) : n \in 0..MaxFrames }
    /\ InitCommon

\* frames = self.draw(...), by the caller or inside show / save: nothing runs yet.
VideoCall(consumer) ==
    /\ Len(gens) < MaxGens
    /\ \A k \in 1..Len(gens) : ~Blocking(gens[k])
    /\ \E a \in VideoArgs : gens' = Append(gens, Generator(consumer, a, gen_pos))
    /\ UNCHANGED <<cls, lst, dirs, files, op, args, raised, result, renderer, shown,
                   saved, delegated, gen_pos>>

VideoDraw == VideoCall("caller")
VideoShow == VideoCall("show_video_from_frames")
VideoSave == VideoCall("save_video")

FrameReturns(j, idx, o) ==
    /\ gens' = [gens EXCEPT ![j] = Yielded(@, idx, o)]
    /\ lst' = Stored(idx, o)
    /\ gen_pos' = gen_pos + 1

\* The consumer of generator j asks for its next frame.
NextFrame(j) ==
    /\ Live(gens[j])
    /\ \A k \in 1..Len(gens) : Blocking(gens[k]) => k = j
    /\ IF PullIndex(gens[j], gen_pos) > Len(lst)
       THEN /\ gens' = [gens EXCEPT ![j] = Exhausted(@)]
            /\ UNCHANGED <<lst, gen_pos>>
       ELSE \E order \in Orders(lst[PullIndex(gens[j], gen_pos)]) :
               FrameReturns(j, PullIndex(gens[j], gen_pos),
                            DetectionDraw(lst[PullIndex(gens[j], gen_pos)],
                                          FrameArgs(gens[j].args), order))
    /\ UNCHANGED <<cls, dirs, files, op, args, raised, result, renderer, shown, saved,
                   delegated>>

NextVideo ==
    \/ VideoDraw
    \/ VideoShow
    \/ VideoSave
    \/ \E j \in 1..Len(gens) : NextFrame(j)

SpecVideo == InitVideo /\ [][NextVideo]_vars

----------------------------------------------------------------------------
(* Properties.  The collection properties are checked under SpecImages,    *)
(* the single-image ones under SpecImage, the video ones under SpecVideo,  *)
(* those on the size of the side-by-side canvas under SpecCanvas.          *)

\* What the caller passed, read from the arguments alone.
IsSet(v) == v.type # "None"
GivenLen(v) == IF v.type = "ndarray" THEN 1 ELSE Len(v.items)
GivenItem(v, k) == IF v.type = "ndarray" THEN v ELSE v.items[k]
DetectionCollectionCall ==
    /\ cls = "ImagesDetectionPrediction"
    /\ op \in {"images.show", "images.save", "_check_target_args"}
AllSet ==
    IsSet(args.target_bboxes) /\ IsSet(args.target_bboxes_format)
    /\ IsSet(args.target_class_ids)
AllUnset ==
    ~IsSet(args.target_bboxes) /\ ~IsSet(args.target_bboxes_format)
    /\ ~IsSet(args.target_class_ids)
CheckFailed == raised.kind \in {E_ALL_OR_NONE, E_LEN_IDS, E_LEN_IMAGES}
ValidGroundTruth ==
    /\ AllSet
    /\ GivenLen(args.target_bboxes) = Len(lst)
    /\ GivenLen(args.target_class_ids) = Len(lst)

\* C1: ImagesDetectionPrediction.save with valid ground truth passes, for every
\* image i, the i-th target_bboxes, the i-th target_class_ids and
\* target_bboxes_format to the i-th single-item save.
C1_SaveDelegatesGroundTruth ==
    (cls = "ImagesDetectionPrediction" /\ op = "images.save" /\ ValidGroundTruth)
    => \A k \in 1..Len(delegated) :
          /\ delegated[k].args.target_bboxes = GivenItem(args.target_bboxes, delegated[k].idx)
          /\ delegated[k].args.target_class_ids
                = GivenItem(args.target_class_ids, delegated[k].idx)
          /\ delegated[k].args.target_bboxes_format = args.target_bboxes_format

\* C2: ImagesDetectionPrediction.show, once _check_target_args has succeeded, calls
\* the single-item show once per image in list order (every image when no
\* single-item show raises, the images up to the raising one otherwise); the i-th
\* call gets the i-th target_bboxes and target_class_ids (None for both when no
\* ground truth is given) and the unchanged format, thickness, confidence flag,
\* colours and class names.
C2_ShowDelegatesPerImage ==
    (cls = "ImagesDetectionPrediction" /\ op = "images.show" /\ ~CheckFailed)
    => /\ Len(delegated) <= Len(lst)
       /\ raised = NoError => Len(delegated) = Len(lst)
       /\ raised # NoError => Len(delegated) >= 1
       /\ \A k \in 1..Len(delegated) :
             /\ delegated[k].idx = k
             /\ delegated[k].op = "show"
             /\ delegated[k].args =
                  [box_thickness |-> args.box_thickness,
                   show_confidence |-> args.show_confidence,
                   color_mapping |-> args.color_mapping,
                   target_bboxes |-> IF AllUnset THEN PyNone
                                     ELSE GivenItem(args.target_bboxes, k),
                   target_bboxes_format |-> args.target_bboxes_format,
                   target_class_ids |-> IF AllUnset THEN PyNone
                                        ELSE GivenItem(args.target_class_ids, k),
                   class_names |-> args.class_names]
       /\ raised = NoError => Len(shown) = Len(lst)

C2_Witness ==
    /\ cls = "ImagesDetectionPrediction" /\ op = "images.show"
    /\ raised = NoError
    /\ Len(lst) >= 2
    /\ AllSet
    /\ Len(delegated) = Len(lst)
    /\ delegated[2].args.target_bboxes = GtBoxesOf(2)
    /\ shown[2].kind = "side by side"

\* C3: _check_target_args (and show and save through it) raises the
\* all-or-none ValueError exactly when some but not all of target_bboxes,
\* target_bboxes_format and target_class_ids are set.
C3_AllOrNoneError ==
    DetectionCollectionCall
    => (raised.kind = E_ALL_OR_NONE <=> (~AllSet /\ ~AllUnset))

C3_Witness ==
    /\ cls = "ImagesDetectionPrediction" /\ op = "images.show"
    /\ IsSet(args.target_bboxes)
    /\ ~IsSet(args.target_bboxes_format)
    /\ IsSet(args.target_class_ids)
    /\ raised.kind = E_ALL_OR_NONE
    /\ delegated = <<>>

\* C4: with all three ground-truth arguments set, a single array counting as a
\* one-element sequence, _check_target_args raises a ValueError stating the two
\* lengths whenever len(target_bboxes) differs from len(target_class_ids) or
\* from the number of images, and no length error otherwise.
C4_LengthErrors ==
    (DetectionCollectionCall /\ AllSet)
    => IF GivenLen(args.target_bboxes) # GivenLen(args.target_class_ids)
       THEN raised = Err(E_LEN_IDS, {}, <<GivenLen(args.target_bboxes),
                                          GivenLen(args.target_class_ids)>>)
       ELSE IF GivenLen(args.target_bboxes) # Len(lst)
       THEN raised = Err(E_LEN_IMAGES, {}, <<GivenLen(args.target_bboxes), Len(lst)>>)
       ELSE ~CheckFailed

C4_Witness ==
    /\ cls = "ImagesDetectionPrediction" /\ op = "_check_target_args"
    /\ Len(lst) >= 2
    /\ args.target_bboxes = SingleGtBoxes
    /\ args.target_class_ids = SingleGtIds
    /\ IsSet(args.target_bboxes_format)
    /\ raised = Err(E_LEN_IMAGES, {}, <<1, Len(lst)>>)

\* C5: whenever _check_target_args returns, both sequences it returns have as
\* many elements as the collection has images; with all three arguments unset
\* they are sequences of None.
C5_ReturnedLengths ==
    (cls = "ImagesDetectionPrediction" /\ op = "_check_target_args" /\ raised = NoError)
    => /\ result.kind = "targets"
       /\ result.left.type = "list" /\ Len(result.left.items) = Len(lst)
       /\ result.right.type = "list" /\ Len(result.right.items) = Len(lst)
       /\ AllUnset => \A k \in 1..Len(lst) :
                         result.left.items[k] = PyNone /\ result.right.items[k] = PyNone

C5_Witness ==
    /\ cls = "ImagesDetectionPrediction" /\ op = "_check_target_args"
    /\ raised = NoError
    /\ AllUnset
    /\ Len(lst) >= 2
    /\ Len(result.left.items) = Len(lst)

\* The class names a detection call asked to show, read from its arguments.
DetectionCall ==
    /\ cls = "ImagePrediction"
    /\ lst[1].kind = "detection"
    /\ op \in {"draw", "show", "save"}
Requested ==
    IF args.class_names.type = "list" THEN Range(args.class_names.items) ELSE {}
Offending == { n \in Requested : \A k \in 1..Len(lst[1].class_names) :
                                    lst[1].class_names[k] # n }

\* C6: ImageDetectionPrediction.draw (and show and save through it) raises the
\* class-names ValueError, naming exactly the requested names that are not in
\* the model's class_names, whenever there is such a name and never otherwise;
\* no box has been drawn and nothing is returned, shown or saved when it does.
C6_InvalidClassNames ==
    DetectionCall
    => /\ raised.kind = E_CLASS_NAMES <=> Offending # {}
       /\ raised.kind = E_CLASS_NAMES
            => /\ raised.names = Offending
               /\ renderer = <<>>
               /\ result = NoResult /\ shown = <<>> /\ saved = <<>>

C6_Witness ==
    /\ DetectionCall /\ op = "draw"
    /\ args.class_names = PyList(<<"cat", "bird">>)
    /\ Len(lst[1].prediction.labels) >= 1
    /\ lst[1].prediction.labels[1] = 0
    /\ raised = Err(E_CLASS_NAMES, {"bird"}, <<>>)
    /\ renderer = <<>>

\* C7: whatever draw, show and save calls have been made on a classification,
\* detection or segmentation wrapper, returning or raising, its stored image is
\* the image it was built with.
C7_ImageNeverMutated ==
    cls = "ImagePrediction"
    => \A i \in 1..Len(lst) :
          /\ lst[i].image.shape \in ImageShapes
          /\ lst[i].image = [Pristine(i) EXCEPT !.shape = lst[i].image.shape]

C7_Witness ==
    /\ DetectionCall /\ op = "draw"
    /\ raised = NoError
    /\ result.kind = "side by side"
    /\ Len(result.left.marks) >= 1
    /\ Len(result.right.marks) >= 1
    /\ lst[1].image = Pristine(1)

\* The file a path names and the directory it is in.
RECURSIVE LastSlash(_, _)
LastSlash(path, k) ==
    IF k = 0 THEN 0 ELSE IF path[k] = "/" THEN k ELSE LastSlash(path, k - 1)
BaseName(path) == SubSeq(path, LastSlash(path, Len(path)) + 1, Len(path))
RECURSIVE Trimmed(_)
Trimmed(d) == IF Len(d) > 0 /\ d[Len(d)] = "/" THEN Trimmed(SubSeq(d, 1, Len(d) - 1)) ELSE d
DirName(path) == Trimmed(SubSeq(path, 1, LastSlash(path, Len(path))))

\* pred_0.jpg ... pred_9.jpg, the names of the first ten files.
PredName ==
    <<<<"pred_", "0", ".jpg">>, <<"pred_", "1", ".jpg">>, <<"pred_", "2", ".jpg">>,
      <<"pred_", "3", ".jpg">>, <<"pred_", "4", ".jpg">>, <<"pred_", "5", ".jpg">>,
      <<"pred_", "6", ".jpg">>, <<"pred_", "7", ".jpg">>, <<"pred_", "8", ".jpg">>,
      <<"pred_", "9", ".jpg">>>>

\* C8: a save of a collection of N images that returns has made sure the output
\* folder exists and has issued exactly N single-item saves, the i-th (from 0) to
\* the file pred_<i>.jpg of the output folder; no other name, no name twice.
C8_SaveWritesPredFiles ==
    (op = "images.save" /\ raised = NoError)
    => /\ Len(delegated) = Len(lst)
       /\ Len(saved) = Len(lst)
       /\ \A k \in 1..Len(delegated) :
             /\ delegated[k].idx = k
             /\ delegated[k].op = "save"
             /\ BaseName(delegated[k].output_path) = PredName[k]
             /\ DirName(delegated[k].output_path) = Trimmed(args.output_folder)
             /\ saved[k].path = delegated[k].output_path
             /\ saved[k].path \in files
       /\ \A j, k \in 1..Len(saved) : j # k => saved[j].path # saved[k].path
       /\ Trimmed(args.output_folder) # <<>> => Trimmed(args.output_folder) \in dirs

C8_Witness ==
    /\ cls = "ImagesDetectionPrediction" /\ op = "images.save"
    /\ raised = NoError
    /\ Len(lst) >= 2
    /\ args.output_folder = <<"runs", "/", "exp", "/">>
    /\ Len(saved) = Len(lst)
    /\ saved[2].path = <<"runs", "/", "exp", "/", "pred_", "1", ".jpg">>
    /\ <<"runs", "/", "exp">> \in dirs

\* The source elements a generator has rendered, in the order it yielded them.
Sources(g) == [k \in 1..Len(g.frames) |-> g.frames[k].src]

\* C9: no element of the video source is rendered twice, whatever draw, show and
\* save calls are made; a consumption of draw() that runs to exhaustion with no
\* other consumer pulling yields every one of the K elements in source order; a
\* generator made once the source is exhausted yields no frame.
C9_VideoConsumedOnce ==
    /\ \A j, k \in 1..Len(gens) :
         \A m \in 1..Len(gens[j].frames), n \in 1..Len(gens[k].frames) :
            (j # k \/ m # n) => gens[j].frames[m].src # gens[k].frames[n].src
    /\ \A j \in 1..Len(gens) :
         \A m, n \in 1..Len(gens[j].frames) :
            m < n => gens[j].frames[m].src < gens[j].frames[n].src
    /\ \A j \in 1..Len(gens) :
         (gens[j].status = "done" /\ \A k \in 1..Len(gens) : k # j => gens[k].pulled = 0)
         => Sources(gens[j]) = [i \in 1..Len(lst) |-> i]
    /\ \A j \in 1..Len(gens) :
         gens[j].born = Len(lst) => (gens[j].frames = <<>> /\ gens[j].pulled = 0)

C9_Witness ==
    /\ Len(lst) >= 2
    /\ Len(gens) = 2
    /\ gens[1].status = "done"
    /\ Len(gens[1].frames) = Len(lst)
    /\ gens[2].status = "done"
    /\ gens[2].frames = <<>>

\* The box renderer's invocations for predicted boxes, in the order made.
OnPredictions(m) == m.fn = "draw_bbox" /\ m.on = "predictions"
PredictionMarks == SelectSeq(renderer, OnPredictions)
ShownIds ==
    LET names == IF args.class_names.type = "list" /\ Len(args.class_names.items) > 0
                 THEN Range(args.class_names.items)
                 ELSE Range(lst[1].class_names)
    IN { k - 1 : k \in { i \in 1..Len(lst[1].class_names) : lst[1].class_names[i] \in names } }
ReachedDrawing == raised.kind \notin {E_CLASS_NAMES, E_FORMAT}

\* C10: ImageDetectionPrediction.draw invokes the box renderer for predicted
\* boxes in non-decreasing confidence order, never for a box whose class id is
\* outside the requested subset, and (once the arguments have been accepted)
\* exactly once for each predicted box whose class id is in it.
C10_AscendingConfidence ==
    DetectionCall
    => /\ \A m, n \in 1..Len(PredictionMarks) :
             m < n => lst[1].prediction.confidence[PredictionMarks[m].idx]
                        <= lst[1].prediction.confidence[PredictionMarks[n].idx]
       /\ \A m \in 1..Len(PredictionMarks) :
             /\ lst[1].prediction.labels[PredictionMarks[m].idx] \in ShownIds
             /\ PredictionMarks[m].box = lst[1].prediction.bboxes_xyxy[PredictionMarks[m].idx]
       /\ \A m, n \in 1..Len(PredictionMarks) :
             m # n => PredictionMarks[m].idx # PredictionMarks[n].idx
       /\ ReachedDrawing
            => \A i \in 1..Len(lst[1].prediction.labels) :
                  lst[1].prediction.labels[i] \in ShownIds
                  => \E m \in 1..Len(PredictionMarks) : PredictionMarks[m].idx = i

C10_Witness ==
    /\ DetectionCall /\ op = "draw"
    /\ raised = NoError
    /\ Len(lst[1].prediction.confidence) = 2
    /\ lst[1].prediction.confidence[1] > lst[1].prediction.confidence[2]
    /\ Len(PredictionMarks) = 2
    /\ PredictionMarks[1].idx = 2
    /\ PredictionMarks[2].idx = 1

----------------------------------------------------------------------------
(* The side-by-side canvas, checked under SpecCanvas. *)

Height == lst[1].image.shape[1]
Width == lst[1].image.shape[2]

\* The call gave ground truth that draw accepts: at least one box, a known format
\* and a class id for every box, and asked for no unknown class name.
GroundTruthBoxes == IF args.target_bboxes.type = "ndarray" THEN Len(args.target_bboxes.items) ELSE 0
GroundTruthIds ==
    IF args.target_class_ids.type = "ndarray" THEN Len(args.target_class_ids.items) ELSE 0
GroundTruthAccepted ==
    /\ GroundTruthBoxes >= 1
    /\ args.target_bboxes_format \in {PyStr("xyxy"), PyStr("xywh")}
    /\ GroundTruthIds >= GroundTruthBoxes
    /\ Offending = {}

\* C11: for every image of height H and width W, draw with non-empty ground truth
\* returns a side-by-side image of height H + H div 8 and width 2 * (W + W div 20).
C11_SideBySideSize ==
    (DetectionCall /\ op = "draw" /\ GroundTruthAccepted)
    => /\ raised = NoError
       /\ result.kind = "side by side"
       /\ result.shape = <<Height + Height \div 8, 2 * (Width + Width \div 20)>>

PasteFits ==
    /\ padding_top + Height <= Height + Height \div 8
    /\ padding_left + Width <= Width + Width \div 20

\* C20 as stated: the pasted region fits the canvas exactly when H >= 480 and
\* W >= 200, and for any smaller image draw fails instead of returning a canvas.
C20_SmallImagesFail ==
    (DetectionCall /\ op = "draw" /\ GroundTruthAccepted)
    => /\ PasteFits <=> (Height >= 480 /\ Width >= 200)
       /\ (raised = NoError /\ result.kind = "side by side")
             <=> (Height >= 480 /\ Width >= 200)

\* C20 amended: the pasted region fits the canvas exactly when H >= 480 and
\* W >= 200; for a smaller image the region is truncated, and draw fails with the
\* ValueError of the assignment unless every truncated axis of the image has length
\* 1 (H = 1 if H < 480, W = 1 if W < 200): the assignment then broadcasts into the
\* truncated region and draw returns a canvas that does not hold the whole image.
C20_SmallImagesFailUnlessBroadcast ==
    (DetectionCall /\ op = "draw" /\ GroundTruthAccepted)
    => /\ PasteFits <=> (Height >= 480 /\ Width >= 200)
       /\ raised # NoError
             <=> ((Height < 480 /\ Height # 1) \/ (Width < 200 /\ Width # 1))
       /\ raised # NoError => raised.kind = E_BROADCAST /\ result = NoResult
       /\ raised = NoError
             => /\ result.kind = "side by side"
                /\ PasteFits <=> result.left.shape = <<Height, Width>>
                /\ result.right.shape = result.left.shape

\* A one-pixel-high image: the region is truncated to nothing and draw returns.
C20_Witness ==
    /\ DetectionCall /\ op = "draw" /\ GroundTruthAccepted
    /\ Height = 1 /\ Width = 200
    /\ ~PasteFits
    /\ raised = NoError
    /\ result.kind = "side by side"
    /\ result.left.shape = <<0, 200>>

----------------------------------------------------------------------------
(* Segmentation and classification wrappers, checked under SpecImage. *)

SegmentationCall ==
    /\ cls = "ImagePrediction"
    /\ lst[1].kind = "segmentation"
    /\ op \in {"draw", "show", "save"}

\* The class names in effect: those draw was given, if any, else the wrapper's.
EffectiveNames ==
    IF op = "draw" /\ args.class_names.type = "list" /\ args.class_names.items # <<>>
    THEN args.class_names.items
    ELSE lst[1].class_names

\* C13: ImageSegmentationPrediction.draw (and show and save through it) calls the
\* overlay collaborator once; with one class name in effect it passes
\* num_classes = 2 and the names ["background", that name], and, when the caller
\* gave no color mapping, a generated mapping of exactly 2 colors; with two or
\* more names it passes the names as they are and their number as num_classes.
C13_SingleClassGetsBackground ==
    SegmentationCall
    => /\ Len(renderer) = 1
       /\ renderer[1].fn = "overlay_segmentation"
       /\ Len(EffectiveNames) = 1
             => /\ renderer[1].num_classes = 2
                /\ renderer[1].class_names = <<"background", EffectiveNames[1]>>
                /\ args.color_mapping = PyNone
                      => /\ Len(renderer[1].colors) = 2
                         /\ renderer[1].colors[1] # renderer[1].colors[2]
                         /\ \A i \in 1..2 : renderer[1].colors[i][1] = "generated"
       /\ Len(EffectiveNames) >= 2
             => /\ renderer[1].class_names = EffectiveNames
                /\ renderer[1].num_classes = Len(EffectiveNames)

C13_Witness ==
    /\ SegmentationCall /\ op = "save"
    /\ lst[1].class_names = <<"foreground">>
    /\ args.color_mapping = PyNone
    /\ renderer[1].num_classes = 2
    /\ renderer[1].class_names = <<"background", "foreground">>
    /\ Len(saved) = 1

ClassificationCall ==
    /\ cls = "ImagePrediction"
    /\ lst[1].kind = "classification"
    /\ op \in {"draw", "show", "save"}

\* C16: ImageClassificationPrediction.draw, show and save ask the label renderer
\* for the class label with the confidence when show_confidence is True and
\* without it when show_confidence is False.
C16_ConfidenceOptional ==
    ClassificationCall
    => /\ Len(renderer) = 1
       /\ renderer[1].fn = "draw_label"
       /\ renderer[1].label = lst[1].class_names[lst[1].prediction.label + 1]
       /\ args.show_confidence => renderer[1].confidence = <<lst[1].prediction.confidence>>
       /\ ~args.show_confidence => renderer[1].confidence = <<>>

----------------------------------------------------------------------------
(* The video wrapper, checked under SpecVideo. *)

\* C14: an invalid-argument failure is raised before the call returns: a frame
\* sequence VideoDetectionPrediction.draw has returned to its caller never raises
\* the class-names ValueError when it is consumed.
C14_RaisedAtCallTime ==
    \A j \in 1..Len(gens) :
        gens[j].consumer = "caller" => gens[j].raised.kind # E_CLASS_NAMES

RECURSIVE TotalPulled(_)
TotalPulled(k) == IF k = 0 THEN 0 ELSE gens[k].pulled + TotalPulled(k - 1)

\* The frames generator g has rendered: those it yielded and the one whose
\* rendering raised.
Renderings(g) == Len(g.frames) + (IF g.status = "raised" THEN 1 ELSE 0)

\* C17: frame rendering is lazy.  At every point, each frame sequence has pulled
\* from the source and rendered exactly as many elements as its consumer (the
\* caller, the display or the encoding collaborator) has asked it for, the one
\* request that found the source exhausted apart; a sequence nobody has asked
\* yet has pulled and rendered nothing, so none is buffered before it is handed
\* over.
C17_LazyFrames ==
    /\ gen_pos = TotalPulled(Len(gens))
    /\ \A j \in 1..Len(gens) :
          /\ Renderings(gens[j]) = gens[j].pulled
          /\ gens[j].pulled = gens[j].requested - (IF gens[j].status = "done" THEN 1 ELSE 0)
          /\ gens[j].status = "created"
                => gens[j].requested = 0 /\ gens[j].pulled = 0 /\ gens[j].frames = <<>>

\* A sequence handed to the encoder is two frames into a longer source while a
\* sequence the caller holds has not been asked for anything.
C17_Witness ==
    /\ Len(lst) = 3
    /\ Len(gens) = 2
    /\ gens[1].consumer = "caller" /\ gens[1].status = "created"
    /\ gens[2].consumer = "save_video" /\ gens[2].requested = 2
    /\ Len(gens[2].frames) = 2
    /\ gen_pos = 2

----------------------------------------------------------------------------
(* Failures, checked under SpecImages and SpecImage. *)

InvalidArgument == {E_CLASS_NAMES, E_ALL_OR_NONE, E_LEN_IDS, E_LEN_IMAGES}

\* C15: a call that raises an invalid-argument error has produced no output:
\* nothing was shown, no image file was written and no folder was created.  In
\* particular ImagesDetectionPrediction.save with inconsistent ground-truth
\* arguments or an unknown display class name leaves the file system as it was.
C15_NoOutputBeforeRaising ==
    [][(op = "idle" /\ op' # "idle" /\ raised'.kind \in InvalidArgument)
         => /\ shown' = <<>>
            /\ saved' = <<>>
            /\ files' = files
            /\ dirs' = dirs]_vars

\* C18: ImageDetectionPrediction.draw, show and save raise an error whenever
\* target_bboxes_format is given while target_bboxes is None.
C18_FormatWithoutBoxesRaises ==
    (DetectionCall /\ args.target_bboxes_format # PyNone /\ args.target_bboxes = PyNone)
    => raised # NoError

ValueErrors == InvalidArgument \cup {E_BROADCAST}

\* C19: a detection draw, show or save that fails because of the ground truth the
\* caller gave fails with a ValueError, also when target_class_ids has fewer
\* entries than target_bboxes (failures inside the box-format collaborators apart).
C19_OnlyValueErrors ==
    (DetectionCall /\ raised # NoError /\ raised.kind # E_FORMAT)
    => raised.kind \in ValueErrors

====
